---- MODULE Spec2Model ----
(***************************************************************************)
(* Model of scripts/generate_icons.py: the icon renderer create_icon and   *)
(* the driver main() that renders one PNG per unique pixel size and writes *)
(* the asset-catalog manifest Contents.json.                               *)
(*                                                                         *)
(* Two specifications share the variables:                                 *)
(*   Spec      runs of main() against an output directory, with I/O        *)
(*             failures and re-runs;                                       *)
(*   SpecIcon  create_icon applied to every size in 1..MaxSize.            *)
(***************************************************************************)
EXTENDS Integers, Sequences, FiniteSets, TLC

VARIABLES
    pc,            \* position of the process: idle, loop, done, aborted (icon in SpecIcon)
    dir_exists,    \* whether icon_dir exists on disk
    files,         \* the content of icon_dir: file name -> content
    dir_at_start,  \* the content of icon_dir when the current run of main() began
    idx,           \* position of the for loop in the size table (1-based)
    generated,     \* the local set `generated` of main()
    calls,         \* the rendering and file-system calls the current run has made, in order
    out,           \* the lines the current run has printed
    runs,          \* how many times main() has been invoked
    size,          \* SpecIcon: the argument of create_icon
    img            \* SpecIcon: the image create_icon returned

vars == <<pc, dir_exists, files, dir_at_start, idx, generated, calls, out, runs, size, img>>

driver_vars == <<pc, dir_exists, files, dir_at_start, idx, generated, calls, out, runs>>

(***************************************************************************)
(* Bounds of the model.                                                    *)
(***************************************************************************)
\* main() is invoked at most MaxRuns times in a behaviour.
MaxRuns == 2

\* SpecIcon applies create_icon to every size in 1..MaxSize.
MaxSize == 160

(***************************************************************************)
(* Text formatting: the f-string conversions of an int.                    *)
(***************************************************************************)
DigitChars == <<"0", "1", "2", "3", "4", "5", "6", "7", "8", "9">>

RECURSIVE str(_)
\* str(n) of a non-negative int: its decimal digits.
str(n) == IF n < 10 THEN DigitChars[n + 1]
          ELSE str(n \div 10) \o DigitChars[(n % 10) + 1]

\* f"icon_{pixel_size}x{pixel_size}.png"
FileName(pixel_size) ==
    "icon_" \o str(pixel_size) \o "x" \o str(pixel_size) \o ".png"

ManifestName == "Contents.json"

(***************************************************************************)
(* create_icon                                                             *)
(***************************************************************************)
\* int(255 * (1 - ratio * 0.3)) with ratio = y / size_.  The exact value is
\* 255*(10*size_ - 3*y) / (10*size_); int() truncates, and the value is
\* positive.  The expression is evaluated in IEEE-754 doubles: whenever the
\* exact value is not an integer it is at least 1/(10*size_) away from one
\* and the rounding error cannot cross it; the exact value is an integer
\* only for ratio = 2k/153, and of those the double result falls below the
\* integer only at ratio = 118/153, where it is 195.99999999999997.
GradientR(y, size_) ==
    LET exact == (255 * (10 * size_ - 3 * y)) \div (10 * size_)
    IN  IF 153 * y = 118 * size_ THEN exact - 1 ELSE exact

\* int(140 - ratio * 60)
GradientG(y, size_) == (140 * size_ - 60 * y) \div size_

\* Mutant: int(100 + ratio * 180).
GradientB_Steep(y, size_) == (100 * size_ + 180 * y) \div size_

\* int(100 + ratio * 80)
GradientB(y, size_) == (100 * size_ + 80 * y) \div size_

\* The fill of the line drawn on row y.
GradientFill(y, size_) ==
    <<GradientR(y, size_), GradientG(y, size_), GradientB(y, size_), 255>>

\* The for loop over the rows: row y in range(size) is filled, from (0, y)
\* to (size, y), with GradientFill(y, size).
Gradient(size_) == [y \in 0 .. size_ - 1 |-> GradientFill(y, size_)]

\* Mutant: the mask box ends at size - 2.
Mask_OffByOne(size_) ==
    [mode   |-> "L",
     width  |-> size_,
     height |-> size_,
     box    |-> <<0, 0, size_ - 2, size_ - 2>>,
     radius |-> size_ \div 4,
     fill   |-> 255]

\* The rounded-corner alpha mask.
Mask(size_) ==
    [mode   |-> "L",
     width  |-> size_,
     height |-> size_,
     box    |-> <<0, 0, size_ - 1, size_ - 1>>,
     radius |-> size_ \div 4,
     fill   |-> 255]

bubble_margin(size_) == size_ \div 6
bubble_left(size_)   == bubble_margin(size_)
bubble_top(size_)    == bubble_margin(size_)
bubble_right(size_)  == size_ - bubble_margin(size_)
bubble_bottom(size_) == size_ - bubble_margin(size_) - size_ \div 8
bubble_radius(size_) == size_ \div 8

\* The main bubble: box <<x0, y0, x1, y1>>.
Bubble(size_) ==
    [box    |-> <<bubble_left(size_), bubble_top(size_),
                  bubble_right(size_), bubble_bottom(size_)>>,
     radius |-> bubble_radius(size_),
     fill   |-> <<255, 255, 255, 255>>]

\* Mutant: the tail tip is size // 4 below the bubble.
tail_points_Low(size_) ==
    << <<bubble_left(size_) + size_ \div 8,  bubble_bottom(size_) - size_ \div 20>>,
       <<bubble_left(size_) + size_ \div 16, bubble_bottom(size_) + size_ \div 4>>,
       <<bubble_left(size_) + size_ \div 4,  bubble_bottom(size_) - size_ \div 20>> >>

\* The bubble tail: three <<x, y>> vertices.
tail_points(size_) ==
    << <<bubble_left(size_) + size_ \div 8,  bubble_bottom(size_) - size_ \div 20>>,
       <<bubble_left(size_) + size_ \div 16, bubble_bottom(size_) + size_ \div 8>>,
       <<bubble_left(size_) + size_ \div 4,  bubble_bottom(size_) - size_ \div 20>> >>

dot_y(size_)       == (bubble_top(size_) + bubble_bottom(size_)) \div 2
dot_radius(size_)  == size_ \div 20
dot_spacing(size_) == size_ \div 6
center_x(size_)    == (bubble_left(size_) + bubble_right(size_)) \div 2

\* for i in range(-1, 2): the box of dot i.
DotBox(i, size_) ==
    LET dot_x == center_x(size_) + i * dot_spacing(size_)
    IN  <<dot_x - dot_radius(size_), dot_y(size_) - dot_radius(size_),
          dot_x + dot_radius(size_), dot_y(size_) + dot_radius(size_)>>

Dots(size_) ==
    [k \in 1 .. 3 |-> [box |-> DotBox(k - 2, size_), fill |-> <<200, 100, 120, 255>>]]

\* The image create_icon returns, as the drawing it holds.
create_icon(size_) ==
    [mode     |-> "RGBA",
     width    |-> size_,
     height   |-> size_,
     gradient |-> Gradient(size_),
     alpha    |-> Mask(size_),
     bubble   |-> Bubble(size_),
     tail     |-> tail_points(size_),
     dots     |-> Dots(size_)]

NoImage == [mode |-> "none"]

(***************************************************************************)
(* SpecIcon: create_icon on every size in 1..MaxSize.                      *)
(***************************************************************************)
InitIcon ==
    /\ size \in 1 .. MaxSize
    /\ img = NoImage
    /\ pc = "icon"
    /\ dir_exists = FALSE
    /\ files = << >>
    /\ dir_at_start = << >>
    /\ idx = 1
    /\ generated = {}
    /\ calls = << >>
    /\ out = << >>
    /\ runs = 0

CreateIcon ==
    /\ pc = "icon"
    /\ img = NoImage
    /\ img' = create_icon(size)
    /\ UNCHANGED <<size, driver_vars>>

NextIcon == CreateIcon

SpecIcon == InitIcon /\ [][NextIcon]_vars

(***************************************************************************)
(* main(): the size table and the manifest.                                *)
(***************************************************************************)
\* A decimal literal with one fractional digit, in tenths: 83.5 is Dec(83, 5).
Dec(whole, tenth) == 10 * whole + tenth

\* The entries of `sizes` under "# iOS".
ios_sizes ==
    << <<Dec(20, 0), 1>>, <<Dec(20, 0), 2>>, <<Dec(20, 0), 3>>,
       <<Dec(29, 0), 1>>, <<Dec(29, 0), 2>>, <<Dec(29, 0), 3>>,
       <<Dec(40, 0), 1>>, <<Dec(40, 0), 2>>, <<Dec(40, 0), 3>>,
       <<Dec(60, 0), 2>>, <<Dec(60, 0), 3>>,
       <<Dec(76, 0), 1>>, <<Dec(76, 0), 2>>,
       <<Dec(83, 5), 2>>,
       <<Dec(1024, 0), 1>> >>

\* The entries of `sizes` under "# macOS".
mac_sizes ==
    << <<Dec(16, 0), 1>>, <<Dec(16, 0), 2>>,
       <<Dec(32, 0), 1>>, <<Dec(32, 0), 2>>,
       <<Dec(128, 0), 1>>, <<Dec(128, 0), 2>>,
       <<Dec(256, 0), 1>>, <<Dec(256, 0), 2>>,
       <<Dec(512, 0), 1>>, <<Dec(512, 0), 2>> >>

\* Mutant: the macOS block of the table is left out.
sizes_NoMac == ios_sizes

\* Mutant: the table has an entry (76, 3) the manifest does not list.
sizes_Extra == ios_sizes \o << <<Dec(76, 0), 3>> >> \o mac_sizes

\* The list `sizes`: (base_size, scale), base_size in tenths.
sizes == ios_sizes \o mac_sizes

\* int(base_size * scale): the product is exact in doubles for these values,
\* and int() truncates.
PixelSize(entry) == (entry[1] * entry[2]) \div 10

Entry(size_, idiom, filename, scale) ==
    [size |-> size_, idiom |-> idiom, filename |-> filename, scale |-> scale]

\* contents["images"]: the iPhone entries.
iphone_images ==
    << Entry("20x20", "iphone", "icon_40x40.png", "2x"),
       Entry("20x20", "iphone", "icon_60x60.png", "3x"),
       Entry("29x29", "iphone", "icon_58x58.png", "2x"),
       Entry("29x29", "iphone", "icon_87x87.png", "3x"),
       Entry("40x40", "iphone", "icon_80x80.png", "2x"),
       Entry("40x40", "iphone", "icon_120x120.png", "3x"),
       Entry("60x60", "iphone", "icon_120x120.png", "2x"),
       Entry("60x60", "iphone", "icon_180x180.png", "3x") >>

\* contents["images"]: the iPad entries.
ipad_images ==
    << Entry("20x20", "ipad", "icon_20x20.png", "1x"),
       Entry("20x20", "ipad", "icon_40x40.png", "2x"),
       Entry("29x29", "ipad", "icon_29x29.png", "1x"),
       Entry("29x29", "ipad", "icon_58x58.png", "2x"),
       Entry("40x40", "ipad", "icon_40x40.png", "1x"),
       Entry("40x40", "ipad", "icon_80x80.png", "2x"),
       Entry("76x76", "ipad", "icon_76x76.png", "1x"),
       Entry("76x76", "ipad", "icon_152x152.png", "2x"),
       Entry("83.5x83.5", "ipad", "icon_167x167.png", "2x") >>

\* Mutant: the App Store entry names the 512 pixel file.
marketing_images_Wrong ==
    << Entry("1024x1024", "ios-marketing", "icon_512x512.png", "1x") >>

\* contents["images"]: the App Store entry.
marketing_images ==
    << Entry("1024x1024", "ios-marketing", "icon_1024x1024.png", "1x") >>

\* contents["images"]: the macOS entries.
mac_images ==
    << Entry("16x16", "mac", "icon_16x16.png", "1x"),
       Entry("16x16", "mac", "icon_32x32.png", "2x"),
       Entry("32x32", "mac", "icon_32x32.png", "1x"),
       Entry("32x32", "mac", "icon_64x64.png", "2x"),
       Entry("128x128", "mac", "icon_128x128.png", "1x"),
       Entry("128x128", "mac", "icon_256x256.png", "2x"),
       Entry("256x256", "mac", "icon_256x256.png", "1x"),
       Entry("256x256", "mac", "icon_512x512.png", "2x"),
       Entry("512x512", "mac", "icon_512x512.png", "1x"),
       Entry("512x512", "mac", "icon_1024x1024.png", "2x") >>

\* contents["images"]
images == iphone_images \o ipad_images \o marketing_images \o mac_images

\* The dict `contents`.
contents == [images |-> images, info |-> [version |-> 1, author |-> "xcode"]]

(***************************************************************************)
(* The output directory.                                                   *)
(***************************************************************************)
\* What icon.save(path) leaves in the file: the PNG encoding of the image.
PngFile(image) == [kind |-> "png", image |-> image]

\* What json.dump(contents, f, indent=2) leaves in the file.
JsonFile(obj) == [kind |-> "json", data |-> obj]

\* A file whose write was cut short by a failure.
Partial == [kind |-> "partial"]

\* A file left by something other than a complete write of this script.
Stale == [kind |-> "stale"]

EmptyDir == [f \in {} |-> Stale]

\* A directory left over from earlier use: a stale icon and manifest, and a
\* file this script never writes.
StaleDir ==
    [f \in {FileName(40), ManifestName, FileName(50)} |-> Stale]

\* Mutant: an existing file is kept instead of replaced.
WriteFile_KeepExisting(files_, name, content) ==
    [f \in DOMAIN files_ \cup {name} |-> IF f \in DOMAIN files_ THEN files_[f] ELSE content]

\* Opening a path for writing and writing the whole content: the file is
\* created or replaced.
WriteFile(files_, name, content) ==
    [f \in DOMAIN files_ \cup {name} |-> IF f = name THEN content ELSE files_[f]]

\* The directory after a write of `name` failed: the open failed and the
\* directory is as before, or the write failed part-way.
FailedWrite(files_, name) == {files_, WriteFile(files_, name, Partial)}

\* Mutant: the exception is swallowed and the run goes on.
OnError_Continue == "loop"

\* An exception of mkdir, save, open or json.dump is not caught: the process
\* terminates with a traceback.
OnError == "aborted"

\* Mutant: the dedup test never skips.
AlreadyGenerated_Never(pixel_size, generated_) == FALSE

\* `if pixel_size in generated: continue`
AlreadyGenerated(pixel_size, generated_) == pixel_size \in generated_

\* Mutant: the loop stops one entry early.
LoopDone_OffByOne(idx_) == idx_ >= Len(sizes)

\* The for loop over `sizes` is exhausted.
LoopDone(idx_) == idx_ > Len(sizes)

Call(op, arg, ok) == [op |-> op, arg |-> arg, ok |-> ok]

(***************************************************************************)
(* Spec: runs of main().                                                   *)
(***************************************************************************)
Init ==
    /\ pc = "idle"
    /\ \/ dir_exists = FALSE /\ files = EmptyDir
       \/ dir_exists = TRUE /\ files = StaleDir
    /\ dir_at_start = files
    /\ idx = 1
    /\ generated = {}
    /\ calls = << >>
    /\ out = << >>
    /\ runs = 0
    /\ size = 1
    /\ img = NoImage

\* The script is run: main() creates icon_dir (mkdir, parents and exist_ok)
\* and reaches the loop with generated = set().
MainStart ==
    /\ pc \in {"idle", "done", "aborted"}
    /\ runs < MaxRuns
    /\ runs' = runs + 1
    /\ dir_at_start' = files
    /\ out' = << >>
    /\ generated' = {}
    /\ idx' = 1
    /\ \/ /\ dir_exists' = TRUE
          /\ calls' = <<Call("mkdir", "icon_dir", TRUE)>>
          /\ pc' = "loop"
       \/ /\ dir_exists' = dir_exists
          /\ calls' = <<Call("mkdir", "icon_dir", FALSE)>>
          /\ pc' = OnError
    /\ UNCHANGED <<files, size, img>>

\* One iteration of `for base_size, scale in sizes`.
LoopStep ==
    /\ pc = "loop"
    /\ ~LoopDone(idx)
    /\ LET pixel_size == PixelSize(sizes[idx])
           filename   == FileName(pixel_size)
       IN  IF AlreadyGenerated(pixel_size, generated)
           THEN /\ idx' = idx + 1
                /\ UNCHANGED <<pc, files, generated, calls, out>>
           ELSE /\ generated' = generated \cup {pixel_size}
                /\ \/ /\ files' = WriteFile(files, filename, PngFile(create_icon(pixel_size)))
                      /\ calls' = calls \o <<Call("create_icon", pixel_size, TRUE),
                                             Call("save", filename, TRUE)>>
                      /\ out' = Append(out, "Generated " \o filename)
                      /\ idx' = idx + 1
                      /\ pc' = pc
                   \/ /\ files' \in FailedWrite(files, filename)
                      /\ calls' = calls \o <<Call("create_icon", pixel_size, TRUE),
                                             Call("save", filename, FALSE)>>
                      /\ pc' = OnError
                      /\ UNCHANGED <<idx, out>>
    /\ UNCHANGED <<dir_exists, dir_at_start, runs, size, img>>

\* After the loop: open Contents.json for writing and json.dump(contents).
WriteManifest ==
    /\ pc = "loop"
    /\ LoopDone(idx)
    /\ \/ /\ files' = WriteFile(files, ManifestName, JsonFile(contents))
          /\ calls' = Append(calls, Call("dump", ManifestName, TRUE))
          /\ out' = out \o <<"\nGenerated Contents.json", "Icons saved to: icon_dir">>
          /\ pc' = "done"
       \/ /\ files' \in FailedWrite(files, ManifestName)
          /\ calls' = Append(calls, Call("dump", ManifestName, FALSE))
          /\ pc' = OnError
          /\ out' = out
    /\ UNCHANGED <<dir_exists, dir_at_start, idx, generated, runs, size, img>>

Next == MainStart \/ LoopStep \/ WriteManifest

Spec == Init /\ [][Next]_vars

(***************************************************************************)
(* Vocabulary of the properties.                                           *)
(***************************************************************************)
Range(f) == {f[i] : i \in DOMAIN f}

\* The calls of the current run with operation `op`, in order.
CallsOf(op) == SelectSeq(calls, LAMBDA c : c.op = op)

\* The arguments of a sequence of calls.
Args(cs) == [i \in 1 .. Len(cs) |-> cs[i].arg]

\* The save calls of the current run that succeeded.
OkSaves == SelectSeq(calls, LAMBDA c : c.op = "save" /\ c.ok)

\* Entry e of the size table is the first one with its pixel size.
IsFirst(e) == \A d \in 1 .. e - 1 : PixelSize(sizes[d]) # PixelSize(sizes[e])

\* The entries before position k that are the first with their pixel size.
FirstEntries(k) == SelectSeq([e \in 1 .. k - 1 |-> e], IsFirst)

\* The file names the loop has to have saved when it stands at position k.
ExpectedSaves(k) ==
    LET first == FirstEntries(k)
    IN  [i \in 1 .. Len(first) |-> FileName(PixelSize(sizes[first[i]]))]

\* The manifest of the directory, when the file holds a complete one.
ManifestWritten == ManifestName \in DOMAIN files /\ files[ManifestName].kind = "json"
WrittenImages == files[ManifestName].data.images

\* The text of a logical size "BxB" (B in tenths) and of a scale "Kx".
PointStr(b) == str(b \div 10) \o (IF b % 10 = 0 THEN "" ELSE "." \o str(b % 10))
SizeStr(b)  == PointStr(b) \o "x" \o PointStr(b)
ScaleStr(k) == str(k) \o "x"

\* The logical sizes a size string is read against: every half point up to
\* 1024 points, in tenths.
LogicalSizes == {5 * j : j \in 1 .. 2 * 1024}

\* The text of every logical size.
SizeTexts == [b \in LogicalSizes |-> SizeStr(b)]

\* Reading a size string: the logical size it is the text of (0 when none).
ParsedSize(t) == IF \E b \in LogicalSizes : SizeTexts[b] = t
                 THEN CHOOSE b \in LogicalSizes : SizeTexts[b] = t
                 ELSE 0

ParsedScale(t) == IF \E k \in 1 .. 9 : ScaleStr(k) = t
                  THEN CHOOSE k \in 1 .. 9 : ScaleStr(k) = t
                  ELSE 0

WellFormed(box) == box[3] >= box[1] /\ box[4] >= box[2]

InCanvas(v, size_) == v >= 0 /\ v <= size_ - 1

BoxInCanvas(box, size_) == \A i \in 1 .. 4 : InCanvas(box[i], size_)

BoxInside(inner, outer) ==
    /\ inner[1] >= outer[1] /\ inner[2] >= outer[2]
    /\ inner[3] <= outer[3] /\ inner[4] <= outer[4]

(***************************************************************************)
(* C1: dedup.  In every run the successful saves are exactly the file      *)
(* names of the first entries with each pixel size among the entries the   *)
(* loop has passed, in table order (so a name is saved once, at the first  *)
(* entry resolving to its pixel size, and later entries with that pixel    *)
(* size neither render nor save); every save follows a create_icon call    *)
(* for its pixel size and no other create_icon calls are made; and after a *)
(* complete run the ios-marketing 1024x1024 1x entry and the mac 512x512   *)
(* 2x entry of the manifest both name icon_1024x1024.png, saved once.      *)
(***************************************************************************)
C1_Dedup ==
    pc \in {"loop", "done", "aborted"} =>
        /\ Args(OkSaves) = ExpectedSaves(idx)
        /\ LET renders == Args(CallsOf("create_icon"))
               saves   == Args(CallsOf("save"))
           IN  /\ Len(renders) = Len(saves)
               /\ \A i \in 1 .. Len(saves) : saves[i] = FileName(renders[i])
               /\ \A i, j \in 1 .. Len(renders) : renders[i] = renders[j] => i = j
        /\ pc = "done" =>
              /\ PixelSize(<<Dec(1024, 0), 1>>) = PixelSize(<<Dec(512, 0), 2>>)
              /\ Len(SelectSeq(calls, LAMBDA c : c.op = "save" /\ c.arg = FileName(1024))) = 1
              /\ Len(SelectSeq(calls, LAMBDA c : c.op = "create_icon" /\ c.arg = 1024)) = 1
              /\ ManifestWritten
              /\ \E e \in Range(WrittenImages) :
                    e.idiom = "ios-marketing" /\ e.size = "1024x1024" /\ e.scale = "1x"
              /\ \E e \in Range(WrittenImages) :
                    e.idiom = "mac" /\ e.size = "512x512" /\ e.scale = "2x"
              /\ \A e \in Range(WrittenImages) :
                    \/ e.idiom = "ios-marketing" /\ e.size = "1024x1024" /\ e.scale = "1x"
                    \/ e.idiom = "mac" /\ e.size = "512x512" /\ e.scale = "2x"
                    => e.filename = FileName(1024)

\* A complete run: the loop is past both (1024, 1) and (512, 2) and 1024 was rendered.
C1_Witness ==
    /\ pc = "done"
    /\ idx = Len(sizes) + 1
    /\ 1024 \in generated
    /\ Cardinality(generated) < Len(sizes)

(***************************************************************************)
(* C2: manifest completeness.  When main() has written Contents.json,      *)
(* every file name in its "images" list is icon_PxP.png for a pixel size P *)
(* of `generated` whose image this run rendered and saved before.          *)
(***************************************************************************)
C2_ManifestComplete ==
    pc = "done" =>
        /\ ManifestWritten
        /\ \A e \in Range(WrittenImages) :
              \E P \in generated :
                  /\ e.filename = FileName(P)
                  /\ \E j \in 1 .. Len(calls) - 1 : calls[j] = Call("save", FileName(P), TRUE)
                  /\ files[FileName(P)].kind = "png"

C2_Witness ==
    /\ pc = "done"
    /\ ManifestWritten
    /\ Len(WrittenImages) = 28
    /\ 167 \in generated

(***************************************************************************)
(* C3: manifest size consistency.  Every entry of the written manifest has *)
(* a logical size "BxB" and a scale "Kx", and its file name is exactly     *)
(* icon_PxP.png with P = floor(B * K), the pixel size the loop computes    *)
(* for (B, K); 83.5 at 2x gives 167 and the iphone 60x60 3x entry names    *)
(* icon_180x180.png.                                                       *)
(***************************************************************************)
C3_ManifestSizes ==
    pc = "done" =>
        /\ ManifestWritten
        /\ \A e \in Range(WrittenImages) :
              LET b == ParsedSize(e.size)
                  k == ParsedScale(e.scale)
              IN  /\ b > 0
                  /\ k > 0
                  /\ PixelSize(<<b, k>>) = (b * k) \div 10
                  /\ e.filename = FileName((b * k) \div 10)
        /\ \E e \in Range(WrittenImages) :
              e.idiom = "iphone" /\ e.size = "60x60" /\ e.scale = "3x"
        /\ \A e \in Range(WrittenImages) :
              e.idiom = "iphone" /\ e.size = "60x60" /\ e.scale = "3x"
              => e.filename = "icon_180x180.png"
        /\ \A e \in Range(WrittenImages) :
              e.size = "83.5x83.5" /\ e.scale = "2x" => e.filename = "icon_167x167.png"

C3_Witness ==
    /\ pc = "done"
    /\ ManifestWritten
    /\ \E e \in Range(WrittenImages) : ParsedSize(e.size) = Dec(83, 5) /\ ParsedScale(e.scale) = 2
    /\ \E e \in Range(WrittenImages) : ParsedSize(e.size) = Dec(60, 0) /\ ParsedScale(e.scale) = 3

(***************************************************************************)
(* C4: ordering.  Every create_icon, save and dump call of a run comes     *)
(* after a successful mkdir; the dump of Contents.json is the last call of *)
(* its run, is made with the loop past the last entry of the size table,   *)
(* and by then the file of every entry's pixel size has been saved by this *)
(* run and holds its image.                                                *)
(***************************************************************************)
C4_Ordering ==
    /\ \A i \in 1 .. Len(calls) :
          calls[i].op # "mkdir" =>
              i > 1 /\ calls[1] = Call("mkdir", "icon_dir", TRUE) /\ dir_exists
    /\ \A i \in 1 .. Len(calls) :
          calls[i].op = "dump" =>
              /\ i = Len(calls)
              /\ idx = Len(sizes) + 1
              /\ \A e \in 1 .. Len(sizes) :
                    LET name == FileName(PixelSize(sizes[e]))
                    IN  /\ \E j \in 1 .. i - 1 : calls[j] = Call("save", name, TRUE)
                        /\ name \in DOMAIN files
                        /\ files[name].kind = "png"

C4_Witness ==
    /\ pc = "done"
    /\ calls[Len(calls)] = Call("dump", ManifestName, TRUE)
    /\ Len(OkSaves) = Cardinality({PixelSize(sizes[e]) : e \in 1 .. Len(sizes)})
    /\ Len(OkSaves) > 1

(***************************************************************************)
(* C5: failure semantics.  A failed call is the last call of its run and   *)
(* the run is aborted: nothing is rendered, saved or written after it and  *)
(* it is not attempted again; when the failed call is not the dump, the    *)
(* run makes no dump and Contents.json is as the run found it; when mkdir  *)
(* fails, the directory is as the run found it.  An aborted run ends with  *)
(* a failed call.                                                          *)
(***************************************************************************)
C5_FailureAborts ==
    /\ \A i \in 1 .. Len(calls) :
          ~calls[i].ok =>
              /\ i = Len(calls)
              /\ pc = "aborted"
              /\ calls[i].op # "dump" =>
                    /\ \A j \in 1 .. Len(calls) : calls[j].op # "dump"
                    /\ ManifestName \in DOMAIN files <=> ManifestName \in DOMAIN dir_at_start
                    /\ ManifestName \in DOMAIN files =>
                          files[ManifestName] = dir_at_start[ManifestName]
              /\ calls[i].op = "mkdir" => files = dir_at_start
    /\ pc = "aborted" => Len(calls) > 0 /\ ~calls[Len(calls)].ok

\* A save failed with entries of the table still to come.
C5_Witness ==
    /\ pc = "aborted"
    /\ calls[Len(calls)].op = "save"
    /\ Len(OkSaves) > 0
    /\ idx < Len(sizes)

(***************************************************************************)
(* C6: idempotence.  Whatever the directory held when the run began, a     *)
(* run without failure ends with every icon file it produces holding the   *)
(* image of its pixel size and Contents.json holding the manifest, the     *)
(* other files of the directory as they were; so a run that began on the   *)
(* output of a complete run leaves the directory as it found it.           *)
(***************************************************************************)
Produced == {FileName(P) : P \in generated} \cup {ManifestName}

\* The directory holds the output of a complete run.
CompleteOutput(d) ==
    /\ Produced \subseteq DOMAIN d
    /\ \A P \in generated : d[FileName(P)] = PngFile(create_icon(P))
    /\ d[ManifestName] = JsonFile(contents)

C6_Idempotent ==
    pc = "done" =>
        /\ generated = {PixelSize(sizes[e]) : e \in 1 .. Len(sizes)}
        /\ CompleteOutput(files)
        /\ DOMAIN files = DOMAIN dir_at_start \cup Produced
        /\ \A f \in DOMAIN dir_at_start \ Produced : files[f] = dir_at_start[f]
        /\ CompleteOutput(dir_at_start) => files = dir_at_start

\* A complete second run that began on a directory holding a file cut short
\* by the failure of the first run and a file the script never writes.
C6_Witness ==
    /\ pc = "done"
    /\ runs = 2
    /\ \E f \in DOMAIN dir_at_start \cap Produced : dir_at_start[f] = Partial
    /\ \E f \in DOMAIN dir_at_start \ Produced : dir_at_start[f] = Stale

(***************************************************************************)
(* C9: no orphan images.  After a complete run the file names the loop     *)
(* saved are exactly the file names of the manifest's "images" list, and   *)
(* the (logical size, scale) pairs of the manifest are exactly the (base,  *)
(* scale) pairs of the size table.                                         *)
(***************************************************************************)
C9_NoOrphans ==
    pc = "done" =>
        /\ ManifestWritten
        /\ Range(Args(OkSaves)) = {e.filename : e \in Range(WrittenImages)}
        /\ {<<e.size, e.scale>> : e \in Range(WrittenImages)}
              = {<<SizeStr(s[1]), ScaleStr(s[2])>> : s \in Range(sizes)}

C9_Witness ==
    /\ pc = "done"
    /\ ManifestWritten
    /\ Cardinality(Range(Args(OkSaves))) > 1
    /\ Cardinality(Range(Args(OkSaves))) < Len(WrittenImages)

(***************************************************************************)
(* C10: the foreground stays on the canvas.  For every image the driver    *)
(* has saved: the bubble box, the tail vertices and the dot boxes have all *)
(* coordinates in [0, size-1]; the tail's second vertex is below the       *)
(* bubble's bottom edge; the dot boxes lie inside the bubble box and do    *)
(* not overlap (2*(size//20) < size//6).                                   *)
(***************************************************************************)
Foreground(image) ==
    LET s_ == image.width
    IN  /\ BoxInCanvas(image.bubble.box, s_)
        /\ \A v \in 1 .. 3 : InCanvas(image.tail[v][1], s_) /\ InCanvas(image.tail[v][2], s_)
        /\ image.tail[2][2] = image.bubble.box[4] + s_ \div 8
        /\ image.tail[2][2] > image.bubble.box[4]
        /\ \A v \in {1, 3} : image.tail[v][2] <= image.tail[2][2]
        /\ \A k \in 1 .. 3 :
              /\ BoxInCanvas(image.dots[k].box, s_)
              /\ BoxInside(image.dots[k].box, image.bubble.box)
        /\ \A k \in 1 .. 2 : image.dots[k].box[3] < image.dots[k + 1].box[1]
        /\ 2 * (s_ \div 20) < s_ \div 6

C10_ForegroundOnCanvas ==
    \A f \in DOMAIN files : files[f].kind = "png" => Foreground(files[f].image)

\* The smallest and the largest image of the table are saved.
C10_Witness ==
    /\ FileName(16) \in DOMAIN files
    /\ files[FileName(16)].kind = "png"
    /\ FileName(1024) \in DOMAIN files
    /\ files[FileName(1024)].kind = "png"

(***************************************************************************)
(* C7: create_icon is total.  For every size >= 1 the image returned has   *)
(* width = height = size and a row of gradient for every y in [0, size);   *)
(* the mask box is (0,0)-(size-1,size-1) with size-1 >= 0, and the bubble  *)
(* box and the three dot boxes have x1 >= x0 and y1 >= y0.                 *)
(***************************************************************************)
C7_Total ==
    img # NoImage =>
        /\ size >= 1
        /\ img.width = size /\ img.height = size
        /\ DOMAIN img.gradient = 0 .. size - 1
        /\ img.alpha.width = size /\ img.alpha.height = size
        /\ img.alpha.box = <<0, 0, size - 1, size - 1>>
        /\ WellFormed(img.alpha.box)
        /\ WellFormed(img.bubble.box)
        /\ \A k \in 1 .. 3 : WellFormed(img.dots[k].box)

\* The smallest size has been rendered.
C7_Witness == img # NoImage /\ size = 1 /\ img.width = 1

(***************************************************************************)
(* C8: the gradient.  For every size and row y the channels are in range   *)
(* without clamping (r in 178..255, g in 80..140, b in 100..180, alpha     *)
(* 255), row 0 is (255, 140, 100), and from one row to the next r and g    *)
(* never increase and b never decreases.                                   *)
(***************************************************************************)
C8_Gradient ==
    img # NoImage =>
        /\ \A y \in 0 .. size - 1 :
              LET c == img.gradient[y]
              IN  /\ c[1] \in 178 .. 255
                  /\ c[2] \in 80 .. 140
                  /\ c[3] \in 100 .. 180
                  /\ c[4] = 255
        /\ img.gradient[0] = <<255, 140, 100, 255>>
        /\ \A y \in 1 .. size - 1 :
              /\ img.gradient[y][1] <= img.gradient[y - 1][1]
              /\ img.gradient[y][2] <= img.gradient[y - 1][2]
              /\ img.gradient[y][3] >= img.gradient[y - 1][3]

\* The one ratio, 118/153, at which the double product falls below the exact 196.
C8_Witness ==
    /\ img # NoImage
    /\ size = 153
    /\ img.gradient[118][1] = 195
    /\ img.gradient[152] = <<179, 80, 179, 255>>

====
